---- MODULE Spec2Model ----
(***************************************************************************)
(* A model of the transport-facing core of azure-iot-device:               *)
(*   - MQTTClientStage (common/pipeline/pipeline_stages_mqtt.py): the      *)
(*     stage that owns the MQTT transport and the active connect /         *)
(*     disconnect operation slots;                                         *)
(*   - the pipeline/callback thread decorators                             *)
(*     (common/pipeline/pipeline_thread.py).                               *)
(*                                                                         *)
(* Spec       : the stage, its handlers run one at a time as closures of   *)
(*              the pipeline context (what its decorators ask for).        *)
(* SpecThread : the decorators and the named executors themselves.         *)
(***************************************************************************)
EXTENDS Integers, Sequences, FiniteSets, TLC

\* ------------------------------------------------------------------ bounds
\* Number of operation objects the stage and the session can still reach at
\* one time (an operation nothing refers to any more gives its place back).
MaxOps == 2

\* ------------------------------------------------------------- value sets
\* Python's None for an attribute holding an operation; an attribute that
\* was never assigned (reading it raises AttributeError).
None == 0
Unset == None - 1
\* Origin of a callback whose session call was made for an operation that
\* has left its slot since.
Stale == None - 2
NoneStr == "None"
UnsetStr == "unset"
NoExc == "no_exception"
\* The value of self.transport once an MQTTTransport has been constructed.
TheTransport == "MQTTTransport"

OpIds == 1..MaxOps
Hostnames == {"h1"}
Tokens == {"t1", "t2"}
Certs == {"x1"}
Topics == {"a"}
\* The causes the transport hands to its failure callbacks.
Causes == {"ConnectionFailedError", "UnauthorizedError"}
\* Exception raised synchronously by a transport call.
TransportRaises == "TransportException"
PipelineError == "PipelineError"
AttributeError == "AttributeError"

ConnectKinds == {"ConnectOperation", "ReconnectOperation"}
SlotKinds == ConnectKinds \cup {"DisconnectOperation"}
AckKinds == {"MQTTPublishOperation", "MQTTSubscribeOperation", "MQTTUnsubscribeOperation"}
ConnectCalls == {"transport.connect", "transport.reconnect"}
DisconnectCalls == {"transport.disconnect"}
AckCalls == {"transport.publish", "transport.subscribe", "transport.unsubscribe"}

VARIABLES
    stage,        \* the MQTTClientStage object's attributes
    ops,          \* the operation objects: kind, error slot, number of complete_op calls
    session,      \* transport calls accepted by the session and not yet answered
    abandoned,    \* whether the last step let an operation go without completing it
    scenario,     \* how far the behaviour has followed the end-to-end scenario
    stored_token, \* the token of the last SetSasTokenOperation the stage received
    last          \* what the last step did: the handler, its inputs, the calls it made

stageVars == <<stage, ops, session, abandoned, scenario, stored_token, last>>

\* ----------------------------------------------------------------- helpers
Min(S) == CHOOSE x \in S : \A y \in S : x <= y

\* An operation object of kind k as it reaches the stage, and a free place.
NewOp(k) == [kind |-> k, error |-> NoneStr, completed |-> 0]

NoOp == [kind |-> "none", error |-> NoneStr, completed |-> 0]

\* A handler runs on a "world": the objects it can reach, the calls it has
\* made so far, and the exception (if any) it is unwinding with.
World == [stage |-> stage, ops |-> ops, session |-> session, calls |-> <<>>, exc |-> NoExc]

Called(w, f, o, a, b) ==
    [w EXCEPT !.calls = Append(@, [fn |-> f, op |-> o, arg |-> a, arg2 |-> b])]

Raise(w, e) == [w EXCEPT !.exc = e]

\* operation_flow.complete_op(stage, op): marks op resolved with its error slot.
complete_op(w, o) ==
    Called([w EXCEPT !.ops[o].completed = @ + 1], "complete_op", o, w.ops[o].error, NoneStr)

\* operation_flow.pass_op_to_next_stage(stage, op): the operation object
\* leaves this stage for the next one.
pass_op_to_next_stage(w, o) ==
    Called([w EXCEPT !.ops[o] = NoOp], "pass_op_to_next_stage", o, w.ops[o].error, NoneStr)

pass_event_to_previous_stage(w, topic, payload) ==
    Called(w, "pass_event_to_previous_stage", None, topic, payload)

on_connected(w) == Called(w, "on_connected", None, NoneStr, NoneStr)

on_disconnected(w) == Called(w, "on_disconnected", None, NoneStr, NoneStr)

exception_caught_in_background_thread(w, e) ==
    Called(w, "exception_caught_in_background_thread", None, e, NoneStr)

\* ops_to_cancel.add(op) on a Python list: lists have no attribute "add".
list_add(lst, o) == [ok |-> FALSE, val |-> lst]

\* A call into the MQTTTransport object.  The session either raises
\* synchronously or accepts the call and answers later through a callback.
transport_call(w, f, o, a, b, raises) ==
    IF w.stage.transport = UnsetStr THEN Raise(w, AttributeError)
    ELSE IF raises THEN Raise(Called(w, f, o, a, b), TransportRaises)
    ELSE [Called(w, f, o, a, b) EXCEPT
            !.session = @ \cup {[fn |-> f, op |-> o]}]

\* ------------------------------------------------------- MQTTClientStage
SetError(w, o, e) == [w EXCEPT !.ops[o].error = e]

CancelOne(w, lst, slot) ==
    \* if self.<slot>: ops_to_cancel.add(self.<slot>); self.<slot> = None
    IF w.exc # NoExc THEN [w |-> w, lst |-> lst]
    ELSE IF w.stage[slot] = Unset THEN [w |-> Raise(w, AttributeError), lst |-> lst]
    ELSE IF w.stage[slot] = None THEN [w |-> w, lst |-> lst]
    ELSE LET r == list_add(lst, w.stage[slot])
         IN IF r.ok THEN [w |-> [w EXCEPT !.stage[slot] = None], lst |-> r.val]
            ELSE [w |-> Raise(w, AttributeError), lst |-> lst]

RECURSIVE CancelLoop(_, _)
CancelLoop(w, lst) ==
    \* for op in ops_to_cancel: op.error = PipelineError(...); complete_op(op)
    IF lst = <<>> THEN w
    ELSE CancelLoop(complete_op(SetError(w, Head(lst), PipelineError), Head(lst)), Tail(lst))

\* Mutant: nothing is cancelled.
_cancel_active_connect_disconnect_ops_nothing(w) == w

_cancel_active_connect_disconnect_ops(w) ==
    LET r1 == CancelOne(w, <<>>, "_active_connect_op")
        r2 == CancelOne(r1.w, r1.lst, "_active_disconnect_op")
    IN IF r2.w.exc # NoExc THEN r2.w ELSE CancelLoop(r2.w, r2.lst)

\* MQTTTransport(client_id, hostname, username, ca_cert): a new session object.
\* The stage keeps a reference to the newest one only; an older one, and the
\* calls it has accepted, stay with the session.
MQTTTransport(w, arg) == Called(w, "MQTTTransport", None, arg, NoneStr)

RunSetConnectionArgs(w, o, arg) ==
    LET w1 == [w EXCEPT !.stage.hostname = arg,
                        !.stage.sas_token = NoneStr,
                        !.stage.trusted_certificate_chain = NoneStr]
        w2 == [MQTTTransport(w1, arg) EXCEPT !.stage.transport = TheTransport]
        w3 == [w2 EXCEPT !.stage._active_connect_op = None,
                         !.stage._active_disconnect_op = None]
    IN complete_op(w3, o)

RunSetSasToken(w, o, arg) == complete_op([w EXCEPT !.stage.sas_token = arg], o)

RunSetCertificate(w, o, arg) ==
    complete_op([w EXCEPT !.stage.trusted_certificate_chain = arg], o)

\* Mutant: the slot keeps the operation when the session call raises.
RunSlotOp_keeps_slot(w, o, slot, f, a, b, raises) ==
    LET w1 == _cancel_active_connect_disconnect_ops(w)
    IN IF w1.exc # NoExc THEN w1
       ELSE transport_call([w1 EXCEPT !.stage[slot] = o], f, o, a, b, raises)

\* The shared shape of the Connect / Reconnect / Disconnect branches:
\* cancel, set the slot, call the transport, clear the slot if it raises.
RunSlotOp(w, o, slot, f, a, b, raises) ==
    LET w1 == _cancel_active_connect_disconnect_ops(w)
    IN IF w1.exc # NoExc THEN w1
       ELSE LET w2 == [w1 EXCEPT !.stage[slot] = o]
                w3 == transport_call(w2, f, o, a, b, raises)
            IN IF w3.exc # NoExc THEN [w3 EXCEPT !.stage[slot] = None] ELSE w3

RunConnect(w, o, raises) ==
    RunSlotOp(w, o, "_active_connect_op", "transport.connect",
              w.stage.sas_token, w.stage.trusted_certificate_chain, raises)

RunReconnect(w, o, raises) ==
    RunSlotOp(w, o, "_active_connect_op", "transport.reconnect",
              w.stage.sas_token, NoneStr, raises)

RunDisconnect(w, o, raises) ==
    RunSlotOp(w, o, "_active_disconnect_op", "transport.disconnect",
              NoneStr, NoneStr, raises)

RunPublish(w, o, arg, raises) == transport_call(w, "transport.publish", o, arg, NoneStr, raises)

RunSubscribe(w, o, arg, raises) == transport_call(w, "transport.subscribe", o, arg, NoneStr, raises)

RunUnsubscribe(w, o, arg, raises) ==
    transport_call(w, "transport.unsubscribe", o, arg, NoneStr, raises)

\* Mutant: an operation the stage does not handle is completed by it.
RunOther_completes(w, o) == complete_op(w, o)

\* else: operation_flow.pass_op_to_next_stage(self, op)
RunOther(w, o) == pass_op_to_next_stage(w, o)

_run_op(w, o, arg, raises) ==
    LET k == w.ops[o].kind
    IN CASE k = "SetMQTTConnectionArgsOperation" -> RunSetConnectionArgs(w, o, arg)
         [] k = "SetSasTokenOperation" -> RunSetSasToken(w, o, arg)
         [] k = "SetClientAuthenticationCertificateOperation" -> RunSetCertificate(w, o, arg)
         [] k = "ConnectOperation" -> RunConnect(w, o, raises)
         [] k = "ReconnectOperation" -> RunReconnect(w, o, raises)
         [] k = "DisconnectOperation" -> RunDisconnect(w, o, raises)
         [] k = "MQTTPublishOperation" -> RunPublish(w, o, arg, raises)
         [] k = "MQTTSubscribeOperation" -> RunSubscribe(w, o, arg, raises)
         [] k = "MQTTUnsubscribeOperation" -> RunUnsubscribe(w, o, arg, raises)
         [] OTHER -> RunOther(w, o)

\* PipelineStage.run_op: an exception escaping _run_op is attached to the
\* operation, which is completed at once.
run_op(w, o, arg, raises) ==
    LET w1 == _run_op(w, o, arg, raises)
    IN IF w1.exc # NoExc
       THEN complete_op(SetError([w1 EXCEPT !.exc = NoExc], o, w1.exc), o)
       ELSE w1

\* Mutant: the event carries no payload.
_handle_mqtt_message_received_drops_payload(w, topic, payload) ==
    pass_event_to_previous_stage(w, topic, NoneStr)

_handle_mqtt_message_received(w, topic, payload) ==
    pass_event_to_previous_stage(w, topic, payload)

\* Mutant: a connected callback that finds no operation fails on it.
_handle_mqtt_connected_requires_op(w) ==
    LET w1 == on_connected(w)
        o == w1.stage._active_connect_op
    IN IF o # None
       THEN complete_op([w1 EXCEPT !.stage._active_connect_op = None], o)
       ELSE Raise(w1, AttributeError)

\* Mutant: the completed connect operation is left in its slot.
_handle_mqtt_connected_keeps_slot(w) ==
    LET w1 == on_connected(w)
        o == w1.stage._active_connect_op
    IN IF o # None THEN complete_op(w1, o) ELSE w1

\* Mutant: the connect operation is completed before the chain is told.
_handle_mqtt_connected_notifies_last(w) ==
    LET o == w.stage._active_connect_op
    IN IF o # None
       THEN on_connected(complete_op([w EXCEPT !.stage._active_connect_op = None], o))
       ELSE on_connected(w)

_handle_mqtt_connected(w) ==
    LET w1 == on_connected(w)
        o == w1.stage._active_connect_op
    IN IF o # None
       THEN complete_op([w1 EXCEPT !.stage._active_connect_op = None], o)
       ELSE w1

\* Mutant: the failed connect operation is left in its slot.
_handle_mqtt_connection_failure_keeps_slot(w, cause) ==
    LET o == w.stage._active_connect_op
    IN IF o # None
       THEN complete_op(SetError(w, o, cause), o)
       ELSE exception_caught_in_background_thread(w, cause)

\* Mutant: the cause is not attached to the operation.
_handle_mqtt_connection_failure_drops_cause(w, cause) ==
    LET o == w.stage._active_connect_op
    IN IF o # None
       THEN complete_op([w EXCEPT !.stage._active_connect_op = None], o)
       ELSE exception_caught_in_background_thread(w, cause)

_handle_mqtt_connection_failure(w, cause) ==
    LET o == w.stage._active_connect_op
    IN IF o # None
       THEN complete_op(SetError([w EXCEPT !.stage._active_connect_op = None], o, cause), o)
       ELSE exception_caught_in_background_thread(w, cause)

\* Mutant: a disconnect without a cause is reported as a dropped connection.
_handle_mqtt_disconnected_always_fails(w, cause) ==
    LET w1 == on_disconnected(w)
        o == w1.stage._active_disconnect_op
        e == IF cause = NoneStr THEN "ConnectionDroppedError" ELSE cause
    IN IF o # None
       THEN complete_op(SetError([w1 EXCEPT !.stage._active_disconnect_op = None], o, e), o)
       ELSE exception_caught_in_background_thread(w1, cause)

\* Mutant: an unexpected disconnect is only logged.
_handle_mqtt_disconnected_only_logs(w, cause) ==
    LET w1 == on_disconnected(w)
        o == w1.stage._active_disconnect_op
    IN IF o # None
       THEN complete_op(SetError([w1 EXCEPT !.stage._active_disconnect_op = None], o, cause), o)
       ELSE w1

_handle_mqtt_disconnected(w, cause) ==
    LET w1 == on_disconnected(w)
        o == w1.stage._active_disconnect_op
    IN IF o # None
       THEN complete_op(SetError([w1 EXCEPT !.stage._active_disconnect_op = None], o, cause), o)
       ELSE exception_caught_in_background_thread(w1, cause)

\* Mutant: an acknowledgement completes the oldest operation the session
\* still owes an acknowledgement.
on_acknowledged_completes_oldest(w, o) ==
    complete_op(w, Min({c.op : c \in {d \in w.session : d.fn \in AckCalls}}))

\* on_published / on_subscribed / on_unsubscribed: the closure over op.
on_acknowledged(w, o) == complete_op(w, o)

\* -------------------------------------------------------------- the steps
\* The stage reaches an operation object through a slot or through the
\* closure it gave the session with a publish, subscribe or unsubscribe.
Reachable(w, o) ==
    \/ w.stage._active_connect_op = o
    \/ w.stage._active_disconnect_op = o
    \/ \E c \in w.session : c.op = o /\ c.fn \in AckCalls

\* An operation object the stage no longer reaches gives its place to a new
\* object (one completed twice stays in the record).  Abandoned: the objects
\* that become unreachable without ever having been completed.
Collect(w) ==
    [o \in OpIds |-> IF w.ops[o].completed <= 1 /\ ~Reachable(w, o) THEN NoOp ELSE w.ops[o]]

Abandoned(w) ==
    {o \in OpIds : w.ops[o].kind # "none" /\ w.ops[o].completed = 0 /\ ~Reachable(w, o)}

\* The session does not know the operation a connect or disconnect call was
\* made for; the model remembers it for as long as that operation is still
\* in its slot, and as Stale once it has left the slot (a stale reconnect
\* call is answered by the same callbacks as a stale connect call).
Track(w) ==
    {IF c.fn \in AckCalls \/ Reachable(w, c.op) THEN c
     ELSE [fn |-> IF c.fn \in ConnectCalls THEN "transport.connect" ELSE c.fn, op |-> Stale]
        : c \in w.session}

Free == {o \in OpIds : ops[o].kind = "none"}

\* The end-to-end scenario: SetConnectionArgs, SetCredential(token "t1"),
\* Connect, the session signals connected, Disconnect, the session signals
\* disconnected with no cause.  ScenarioStep(k, ...) holds when the step taken
\* is the k-th of them; scenario counts the steps followed from the start.
Off == 0 - 1

ScenarioStep(k, w, act, o, origin, arg) ==
    CASE k = 1 -> act = "SetMQTTConnectionArgsOperation"
      [] k = 2 -> act = "SetSasTokenOperation" /\ arg = "t1"
      [] k = 3 -> act = "ConnectOperation" /\ w.stage._active_connect_op = o
      [] k = 4 -> act = "_handle_mqtt_connected" /\ origin > None
      [] k = 5 -> act = "DisconnectOperation" /\ w.stage._active_disconnect_op = o
      [] k = 6 -> act = "_handle_mqtt_disconnected" /\ origin > None /\ arg = NoneStr
      [] OTHER -> FALSE

\* The state after a handler ran: its world, with the record of the step.
Commit(w, act, o, origin, arg) ==
    /\ scenario' = IF scenario # Off /\ ScenarioStep(scenario + 1, w, act, o, origin, arg)
                   THEN scenario + 1 ELSE Off
    /\ stage' = w.stage
    /\ ops' = Collect(w)
    /\ abandoned' = (Abandoned(w) # {})
    /\ session' = Track(w)
    /\ stored_token' = IF act = "SetSasTokenOperation" THEN arg ELSE stored_token
    /\ last' = [act |-> act, op |-> o, origin |-> origin, arg |-> arg,
                preC |-> stage._active_connect_op,
                preD |-> stage._active_disconnect_op,
                preT |-> stage.transport,
                calls |-> w.calls, exc |-> w.exc]

\* An operation of kind k reaches the stage on the pipeline thread.
Issue(k, arg, raises) ==
    /\ Free # {}
    /\ LET o == Min(Free)
           w == run_op([World EXCEPT !.ops[o] = NewOp(k)], o, arg, raises)
       IN Commit(w, k, o, None, arg)

SetConnectionArgs == \E h \in Hostnames : Issue("SetMQTTConnectionArgsOperation", h, FALSE)

SetSasToken == \E t \in Tokens : Issue("SetSasTokenOperation", t, FALSE)

SetCertificate == \E c \in Certs : Issue("SetClientAuthenticationCertificateOperation", c, FALSE)

Connect == \E r \in BOOLEAN : Issue("ConnectOperation", NoneStr, r)

Reconnect == \E r \in BOOLEAN : Issue("ReconnectOperation", NoneStr, r)

Disconnect == \E r \in BOOLEAN : Issue("DisconnectOperation", NoneStr, r)

Publish == \E t \in Topics, r \in BOOLEAN : Issue("MQTTPublishOperation", t, r)

Subscribe == \E t \in Topics, r \in BOOLEAN : Issue("MQTTSubscribeOperation", t, r)

Unsubscribe == \E t \in Topics, r \in BOOLEAN : Issue("MQTTUnsubscribeOperation", t, r)

OtherOperation == Issue("OtherOperation", NoneStr, FALSE)

\* The session answers an accepted call, or calls back on its own account
\* (origin = None); the handler runs as a closure on the pipeline thread.
Answered(fns) == {c \in session : c.fn \in fns}

Origins(fns) == {[call |-> c, op |-> c.op] : c \in Answered(fns)}

\* A connection the session loses on its own account: no call is answered.
\* (While a disconnect call is pending, a disconnected callback is its answer.)
ConnectionLost ==
    IF stage.transport # UnsetStr /\ Answered(DisconnectCalls) = {}
    THEN {[call |-> [fn |-> "none", op |-> None], op |-> None]}
    ELSE {}

Deliver(src, w, act, arg) ==
    Commit([w EXCEPT !.session = @ \ {src.call}], act, None, src.op, arg)

MqttConnected ==
    \E src \in Origins(ConnectCalls) :
        Deliver(src, _handle_mqtt_connected(World), "_handle_mqtt_connected", NoneStr)

MqttConnectionFailure ==
    \E src \in Origins(ConnectCalls), cause \in Causes :
        Deliver(src, _handle_mqtt_connection_failure(World, cause),
                "_handle_mqtt_connection_failure", cause)

MqttDisconnected ==
    \E src \in Origins(DisconnectCalls) \cup ConnectionLost, cause \in Causes \cup {NoneStr} :
        Deliver(src, _handle_mqtt_disconnected(World, cause),
                "_handle_mqtt_disconnected", cause)

MqttMessageReceived ==
    /\ stage.transport # UnsetStr
    /\ \E t \in Topics :
        Commit(_handle_mqtt_message_received(World, t, "payload"),
               "_handle_mqtt_message_received", None, None, t)

MqttAcknowledged ==
    \E c \in Answered(AckCalls) :
        Commit([on_acknowledged(World, c.op) EXCEPT !.session = @ \ {c}],
               "on_acknowledged", None, c.op, NoneStr)

StageInit ==
    /\ stage = [hostname |-> UnsetStr,
                sas_token |-> UnsetStr,
                trusted_certificate_chain |-> UnsetStr,
                transport |-> UnsetStr,
                _active_connect_op |-> Unset,
                _active_disconnect_op |-> Unset]
    /\ ops = [o \in OpIds |-> NoOp]
    /\ session = {}
    /\ abandoned = FALSE
    /\ scenario = 0
    /\ stored_token = NoneStr
    /\ last = [act |-> "init", op |-> None, origin |-> None, arg |-> NoneStr,
               preC |-> Unset, preD |-> Unset, preT |-> UnsetStr,
               calls |-> <<>>, exc |-> NoExc]

\* ======================================================= pipeline_thread
\* ------------------------------------------------------------------ bounds
\* Number of closures submitted to executors in one behaviour.
MaxDispatch == 3
\* Number of ThreadPoolExecutor objects constructed in one behaviour.
MaxExecutors == 4

Contexts == {"pipeline", "callback"}
\* Threads that are no executor's worker: a client thread, which enters the
\* pipeline with an operation, and the session's own thread, which calls the
\* handlers.  The worker of executor e is thread e.
ClientThread == 0 - 1
SessionThread == 0 - 2
ExtThreads == {ClientThread, SessionThread}
ExecIds == 1..MaxExecutors
Threads == ExtThreads \cup ExecIds
ClosureIds == 1..MaxDispatch

Handlers == {"_handle_mqtt_connected", "_handle_mqtt_connection_failure",
             "_handle_mqtt_disconnected", "_handle_mqtt_message_received"}
\* The decorated functions: the handlers (invoke_on_pipeline_thread_nowait),
\* a blocking entry into the pipeline that runs an operation
\* (invoke_on_pipeline_thread), a client's completion callback
\* (invoke_on_callback_thread_nowait).
Decorated == Handlers \cup {"run_op", "callback"}
\* The functions that read or write the stage's state.
StageFns == Handlers \cup {"_run_op"}

\* Mutant: the callback decorator names the pipeline thread.
CtxOf_pipeline(fn) == "pipeline"

CtxOf(fn) == IF fn = "callback" THEN "callback" ELSE "pipeline"

\* The dispatcher treats the four handlers alike (one decorator, one
\* context): a closure waiting to run is kept as a handler's closure, and
\* which handler it calls is recorded when a worker enters it.
Closure(fn) == IF fn \in Handlers THEN "handler" ELSE fn

FuncOf(c) == IF c = "handler" THEN Handlers ELSE {c}

\* Mutant: no decorator waits for the future.
BlockOf_nowait(fn) == FALSE

\* Mutant: every decorator waits for the future.
BlockOf_always(fn) == TRUE

BlockOf(fn) == fn = "run_op"

VARIABLES
    named,     \* _get_named_executor.<thread_name>: the executor stored under a name
    execs,     \* the executors: context, queue of submitted closures, running closure
    th,        \* the threads: position, thread-local flags, pending call
    submitted, \* number of closures submitted so far
    done,      \* the futures that have a result
    failed,    \* the futures a caller waits for whose result is an exception
    ran        \* the function the last step entered, if any: whether its body
               \* ran or its thread assertion failed, and the thread's flags

threadVars == <<named, execs, th, submitted, done, failed, ran>>

NoRun ==
    [fn |-> "none", on |-> "none", flags |-> {}, fault |-> FALSE, via |-> "none", id |-> 0,
     by |-> 0]

\* The record of a function entered: how the thread came to enter it (as the
\* closure id of a worker, inline through a wrapper, or by a direct call).
\* For a worker, by is the closure that was running when this one was
\* submitted (0: it was submitted by a thread that is no worker).
Entered(r, via, id) ==
    [fn |-> r.fn, on |-> r.on, flags |-> r.flags, fault |-> r.fault, via |-> via, id |-> id,
     by |-> 0]

\* The closure a thread is running when it submits another one.
Submitter(t) == IF t \in ExecIds THEN execs[t].running ELSE 0

NoExec == [ctx |-> "none", queue |-> <<>>, running |-> 0]

Idle == [pc |-> "idle", flags |-> {}, fn |-> "none", wait |-> 0, nested |-> 0]

Unused == {e \in ExecIds : execs[e].ctx = "none"}

\* The threads that have read no executor under a name and go on to construct one.
Creating == {t \in Threads : th[t].pc = "create"}

\* Mutant: the wrapper never finds the thread flagged.
InThread_never(t, ctx) == FALSE

\* getattr(_get_thread_local_storage(), "in_<thread_name>_thread", False)
InThread(t, ctx) == ctx \in th[t].flags

\* Where a thread goes back to after a call: an executor's worker is inside
\* the body of the closure it runs.
Back(t) == IF t \in ExecIds THEN "body" ELSE "idle"

\* A function body entered on thread t, whose thread-local flags are fl; the
\* record keeps the context whose worker t is.
OnContext(t) == IF t \in ExecIds THEN execs[t].ctx ELSE "none"

RunBody(fn, t, fl) == [fn |-> fn, on |-> OnContext(t), flags |-> fl, fault |-> FALSE]

\* Mutant: the assertion is skipped.
_assert_executor_thread_skipped(fn, t, fl) == RunBody(fn, t, fl)

\* runs_on_pipeline_thread: assert False unless the thread is flagged.
_assert_executor_thread(fn, t, fl) ==
    IF "pipeline" \notin fl
    THEN [fn |-> fn, on |-> OnContext(t), flags |-> fl, fault |-> TRUE]
    ELSE RunBody(fn, t, fl)

\* The body of a decorated function on thread t.  run_op calls the stage's
\* _run_op, which asserts the pipeline thread.
Body(fn, t, fl) ==
    IF fn = "run_op" THEN _assert_executor_thread("_run_op", t, fl)
    ELSE RunBody(fn, t, fl)

\* Mutant: thread_proc does not flag the worker thread.
thread_proc_flags_unset(fl, ctx) == fl

\* thread_proc: setattr(_get_thread_local_storage(), "in_<thread_name>_thread", True)
thread_proc_flags(fl, ctx) == fl \cup {ctx}

\* future = executor.submit(thread_proc); block ? future.result() : future
Submit(t, fn, e, nest) ==
    LET id == submitted + 1
    IN /\ submitted' = id
       /\ execs' = [execs EXCEPT
                       ![e].queue = Append(@, [id |-> id, fn |-> Closure(fn), by |-> Submitter(t)])]
       /\ th' = [th EXCEPT ![t].fn = "none", ![t].nested = nest,
                           ![t].pc = IF BlockOf(fn) THEN "blocked" ELSE Back(t),
                           ![t].wait = IF BlockOf(fn) THEN id ELSE 0]

\* The calls the model makes: the client thread enters the pipeline with an
\* operation, the session thread calls the handlers, a pipeline closure calls
\* a pipeline function or a client's callback, a callback closure enters the
\* pipeline with an operation or calls another callback.
MayCall(t, fn) ==
    \/ t = ClientThread /\ th[t].pc = "idle" /\ fn = "run_op"
    \/ t = SessionThread /\ th[t].pc = "idle" /\ fn \in Handlers
    \/ /\ t \in ExecIds /\ th[t].pc = "body" /\ th[t].nested = 0
       /\ IF execs[t].ctx = "pipeline" THEN fn \in Handlers \cup {"run_op", "callback"}
          ELSE fn \in {"run_op", "callback"}

\* wrapper(*args): a thread calls a decorated function.  Already in the
\* context's thread: the function runs inline.  Otherwise the wrapper reads
\* the executor stored under the name (line 80) and submits to it, or goes on
\* to construct one.
Invoke(t, fn) ==
    /\ MayCall(t, fn)
    /\ LET nest == IF t \in ExecIds THEN 1 ELSE 0
           e == named[CtxOf(fn)]
       IN IF InThread(t, CtxOf(fn))
          THEN /\ ran' = Entered(Body(fn, t, th[t].flags), "inline", 0)
               /\ th' = [th EXCEPT ![t].nested = nest]
               /\ UNCHANGED <<named, execs, submitted, done, failed>>
          ELSE /\ submitted < MaxDispatch
               /\ ran' = NoRun
               /\ IF e # 0
                  THEN Submit(t, fn, e, nest)
                  ELSE /\ 2 * Cardinality(Creating) + 2 <= Cardinality(Unused)
                       /\ th' = [th EXCEPT ![t].pc = "create", ![t].fn = Closure(fn),
                                           ![t].nested = nest]
                       /\ UNCHANGED <<execs, submitted>>
               /\ UNCHANGED <<named, done, failed>>

Call ==  \E t \in Threads, fn \in Decorated : Invoke(t, fn)

\* _get_named_executor, lines 83-85: one executor is constructed and returned,
\* another one is constructed and stored under the name.
CreateExecutor(t) ==
    /\ th[t].pc = "create"
    /\ LET returned == Min(Unused)
           stored == Min(Unused \ {returned})
           fn == th[t].fn
           id == submitted + 1
       IN /\ named' = [named EXCEPT ![CtxOf(fn)] = stored]
          /\ submitted' = id
          /\ execs' = [execs EXCEPT
                          ![returned] = [ctx |-> CtxOf(fn),
                                         queue |-> <<[id |-> id, fn |-> fn, by |-> Submitter(t)]>>,
                                         running |-> 0],
                          ![stored] = [ctx |-> CtxOf(fn), queue |-> <<>>, running |-> 0]]
          /\ th' = [th EXCEPT ![t].fn = "none",
                              ![t].pc = IF BlockOf(fn) THEN "blocked" ELSE Back(t),
                              ![t].wait = IF BlockOf(fn) THEN id ELSE 0]
    /\ ran' = NoRun
    /\ UNCHANGED <<done, failed>>

\* The executor's single worker takes the next closure: thread_proc flags the
\* thread and calls the function.
StartClosure(e) ==
    /\ execs[e].running = 0
    /\ execs[e].queue # <<>>
    /\ th[e].pc = "idle"
    /\ LET c == Head(execs[e].queue)
           fl == thread_proc_flags(th[e].flags, execs[e].ctx)
       IN /\ execs' = [execs EXCEPT ![e].running = c.id, ![e].queue = Tail(@)]
          /\ th' = [th EXCEPT ![e].pc = "body", ![e].flags = fl, ![e].nested = 0]
          /\ \E fn \in FuncOf(c.fn) :
                ran' = [Entered(Body(fn, e, fl), "worker", c.id) EXCEPT !.by = c.by]
    /\ UNCHANGED <<named, submitted, done, failed>>

Start == \E e \in ExecIds : StartClosure(e)

\* A future some caller is blocked on in future.result().
Awaited(id) == \E t \in Threads : th[t].pc = "blocked" /\ th[t].wait = id

\* The function returns or raises: the future has its result or its
\* exception, the worker is free.  The exception of a future nobody waits
\* for stays in the future object, which nobody reads (line 125 hands the
\* future to the caller; thread_proc has no except clause).
FinishClosure(e) ==
    /\ execs[e].running # 0
    /\ th[e].pc = "body"
    /\ done' = done \cup {execs[e].running}
    /\ \E raised \in BOOLEAN :
          /\ failed' = IF raised /\ Awaited(execs[e].running)
                       THEN failed \cup {execs[e].running} ELSE failed
          /\ ran' = IF raised
                    THEN [fn |-> "thread_proc", on |-> execs[e].ctx, flags |-> th[e].flags,
                          fault |-> TRUE, via |-> "raise", id |-> execs[e].running, by |-> 0]
                    ELSE NoRun
    /\ execs' = [execs EXCEPT ![e].running = 0]
    /\ th' = [th EXCEPT ![e].pc = "idle"]
    /\ UNCHANGED <<named, submitted>>

Finish == \E e \in ExecIds : FinishClosure(e)

\* future.result() returns the function's value to a blocked caller, or
\* raises the function's exception in it.
Resume(t) ==
    /\ th[t].pc = "blocked"
    /\ th[t].wait \in done
    /\ th' = [th EXCEPT ![t].pc = Back(t), ![t].wait = 0]
    /\ ran' = [fn |-> "future.result", on |-> OnContext(t), flags |-> th[t].flags,
               fault |-> th[t].wait \in failed, via |-> "result", id |-> th[t].wait,
               by |-> 0]
    /\ failed' = failed \ {th[t].wait}
    /\ UNCHANGED <<named, execs, submitted, done>>

Return == \E t \in Threads : Resume(t)

\* A thread calls the stage's _run_op without going through a decorator
\* that enters the pipeline thread.
DirectRunOp ==
    \E t \in Threads :
        /\ \/ t \in ExtThreads /\ th[t].pc = "idle"
           \/ t \in ExecIds /\ th[t].pc = "body" /\ th[t].nested = 0
        /\ ran' = Entered(_assert_executor_thread("_run_op", t, th[t].flags), "direct", 0)
        /\ th' = [th EXCEPT ![t].nested = IF t \in ExecIds THEN 1 ELSE 0]
        /\ UNCHANGED <<named, execs, submitted, done, failed>>

ThreadInit ==
    /\ named = [c \in Contexts |-> 0]
    /\ execs = [e \in ExecIds |-> NoExec]
    /\ th = [t \in Threads |-> Idle]
    /\ submitted = 0
    /\ done = {}
    /\ failed = {}
    /\ ran = NoRun

\* ============================================================ error maps
\* ------------------------------------------------------------------ bounds
\* The library codes the mappers are applied to run from -1 to MaxCode.
MaxCode == 16

\* paho.mqtt.client: the connect-refusal codes and the result codes.
CONNACK_REFUSED_PROTOCOL_VERSION == 1
CONNACK_REFUSED_IDENTIFIER_REJECTED == 2
CONNACK_REFUSED_SERVER_UNAVAILABLE == 3
CONNACK_REFUSED_BAD_USERNAME_PASSWORD == 4
CONNACK_REFUSED_NOT_AUTHORIZED == 5

MQTT_ERR_NOMEM == 1
MQTT_ERR_PROTOCOL == 2
MQTT_ERR_INVAL == 3
MQTT_ERR_NO_CONN == 4
MQTT_ERR_CONN_REFUSED == 5
MQTT_ERR_NOT_FOUND == 6
MQTT_ERR_CONN_LOST == 7
MQTT_ERR_TLS == 8
MQTT_ERR_PAYLOAD_SIZE == 9
MQTT_ERR_NOT_SUPPORTED == 10
MQTT_ERR_AUTH == 11
MQTT_ERR_ACL_DENIED == 12
MQTT_ERR_UNKNOWN == 13
MQTT_ERR_ERRNO == 14
MQTT_ERR_QUEUE_SIZE == 15

LibraryCodes == (0 - 1)..MaxCode

\* An exception object: its class, the argument it was constructed with, and
\* its __cause__ (no element: none was set).
Exception(class, message) == [kind |-> class, message |-> message, cause |-> <<>>]

\* raise generic_error from paho_error: the class is instantiated with no
\* argument.
NoArgs == "()"

\* ------------------------------------------------------------ error_map
status_code_to_error ==
    (400 :> "ArgumentError") @@
    (401 :> "UnauthorizedError") @@
    (403 :> "QuotaExceededError") @@
    (404 :> "NotFoundError") @@
    (408 :> "DeviceTimeoutError") @@
    (409 :> "DeviceAlreadyExistsError") @@
    (412 :> "InvalidEtagError") @@
    (413 :> "MessageTooLargeError") @@
    (429 :> "ThrottlingError") @@
    (500 :> "InternalServiceError") @@
    (502 :> "BadDeviceResponseError") @@
    (503 :> "ServiceUnavailableError") @@
    (504 :> "TimeoutError")

error_from_status_code(status_code, message) ==
    IF status_code \in DOMAIN status_code_to_error
    THEN Exception(status_code_to_error[status_code], message)
    ELSE Exception("FailedStatusCodeError", message)

\* ------------------------------------------------------- error_map_paho
paho_conack_rc_to_error ==
    (CONNACK_REFUSED_PROTOCOL_VERSION :> "PahoConnectionRefusedProtocolVersionError") @@
    (CONNACK_REFUSED_IDENTIFIER_REJECTED :> "PahoConnectionRefusedIdentifierRejectedError") @@
    (CONNACK_REFUSED_SERVER_UNAVAILABLE :> "PahoConnectionRefusedServerUnavailableError") @@
    (CONNACK_REFUSED_BAD_USERNAME_PASSWORD :> "PahoConnectionRefusedBadUsernamePasswordError") @@
    (CONNACK_REFUSED_NOT_AUTHORIZED :> "PahoConnectionRefusedNotAuthorizedError")

paho_rc_to_error ==
    (MQTT_ERR_NOMEM :> "PahoNoMemoryError") @@
    (MQTT_ERR_PROTOCOL :> "PahoProtocolError") @@
    (MQTT_ERR_INVAL :> "PahoInvalidArgsError") @@
    (MQTT_ERR_NO_CONN :> "PahoNoConnectionError") @@
    (MQTT_ERR_CONN_REFUSED :> "PahoConnectionRefusedError") @@
    (MQTT_ERR_NOT_FOUND :> "PahoNotFoundError") @@
    (MQTT_ERR_CONN_LOST :> "PahoConnectionLostError") @@
    (MQTT_ERR_TLS :> "PahoTLSError") @@
    (MQTT_ERR_PAYLOAD_SIZE :> "PahoPayloadSizeError") @@
    (MQTT_ERR_NOT_SUPPORTED :> "PahoNotSupportedError") @@
    (MQTT_ERR_AUTH :> "PahoAuthError") @@
    (MQTT_ERR_ACL_DENIED :> "PahoACLDeniedError") @@
    (MQTT_ERR_UNKNOWN :> "PahoUnknownError") @@
    (MQTT_ERR_ERRNO :> "PahoUnknownError") @@
    (MQTT_ERR_QUEUE_SIZE :> "PahoQueueSizeError")

paho_error_to_generic_error ==
    [c \in {"PahoConnectionRefusedProtocolVersionError",
            "PahoConnectionRefusedIdentifierRejectedError",
            "PahoNoMemoryError", "PahoProtocolError", "PahoInvalidArgsError",
            "PahoNotFoundError", "PahoPayloadSizeError", "PahoNotSupportedError",
            "PahoUnknownError", "PahoQueueSizeError"} |-> "TransportError"] @@
    ("PahoConnectionRefusedServerUnavailableError" :> "ConnectionFailedError") @@
    [c \in {"PahoConnectionRefusedBadUsernamePasswordError",
            "PahoConnectionRefusedNotAuthorizedError",
            "PahoConnectionRefusedError", "PahoTLSError", "PahoAuthError",
            "PahoACLDeniedError"} |-> "UnauthorizedError"] @@
    [c \in {"PahoNoConnectionError", "PahoConnectionLostError"} |-> "ConnectionDroppedError"]

\* mqtt.conack_string(code), mqtt.error_string(rc): the library's text for a code.
conack_string(conack_rc_code) == [text |-> "conack_string", of |-> conack_rc_code]

error_string(rc) == [text |-> "error_string", of |-> rc]

\* Mutant: the generic error is returned without its cause.
_wrap_paho_error_in_generic_error_no_cause(paho_error) ==
    Exception(paho_error_to_generic_error[paho_error.kind], NoArgs)

\* Mutant: the library's unknown error becomes a PipelineError.
_wrap_paho_error_in_generic_error_unknown_pipeline(paho_error) ==
    [Exception(IF paho_error.kind = "PahoUnknownError" THEN "PipelineError"
               ELSE paho_error_to_generic_error[paho_error.kind], NoArgs)
        EXCEPT !.cause = <<paho_error>>]

_wrap_paho_error_in_generic_error(paho_error) ==
    LET generic_error == IF paho_error.kind \in DOMAIN paho_error_to_generic_error
                         THEN paho_error_to_generic_error[paho_error.kind]
                         ELSE "TransportError"
    IN [Exception(generic_error, NoArgs) EXCEPT !.cause = <<paho_error>>]

create_error_from_conack_rc_code(conack_rc_code) ==
    LET message == conack_string(conack_rc_code)
        paho_error == IF conack_rc_code \in DOMAIN paho_conack_rc_to_error
                      THEN Exception(paho_conack_rc_to_error[conack_rc_code], message)
                      ELSE Exception("PahoUnknownError", message)
    IN _wrap_paho_error_in_generic_error(paho_error)

create_error_from_rc_code(rc) ==
    LET message == error_string(rc)
        paho_error == IF rc \in DOMAIN paho_rc_to_error
                      THEN Exception(paho_rc_to_error[rc], message)
                      ELSE Exception("PahoUnknownError", message)
    IN _wrap_paho_error_in_generic_error(paho_error)

\* ---------------------------------------------------- applying the maps
\* The status codes of the table, their neighbours, and the library codes.
StatusCodes ==
    UNION {{c - 1, c, c + 1} : c \in DOMAIN status_code_to_error} \cup {200}

Codes == StatusCodes \cup LibraryCodes

Messages == {NoneStr, "m1"}

VARIABLES
    arguments, \* the code and the message a mapper is called with
    returned   \* the mapper that was called and the error it returned

errorVars == <<arguments, returned>>

NoArguments == [code |-> 0, message |-> NoneStr]

NoReturn == [fn |-> "none"]

ErrorFromStatusCode ==
    /\ returned' = [fn |-> "error_from_status_code",
                    error |-> error_from_status_code(arguments.code, arguments.message)]
    /\ UNCHANGED arguments

CreateErrorFromConackRcCode ==
    /\ returned' = [fn |-> "create_error_from_conack_rc_code",
                    error |-> create_error_from_conack_rc_code(arguments.code)]
    /\ UNCHANGED arguments

CreateErrorFromRcCode ==
    /\ returned' = [fn |-> "create_error_from_rc_code",
                    error |-> create_error_from_rc_code(arguments.code)]
    /\ UNCHANGED arguments

\* No mapper is called in a behaviour of the stage or of the dispatcher.
ErrorsIdle ==
    /\ arguments = NoArguments
    /\ returned = NoReturn

ErrorsInit ==
    /\ arguments \in [code : Codes, message : Messages]
    /\ returned = NoReturn

\* ============================================== waitable callbacks
\* ------------------------------------------------------------------ bounds
\* Number of times one callback object is called in a behaviour.
MaxCalls == 2

Absent == "absent"
TypeError == "TypeError"
InvalidStateError == "InvalidStateError"

\* The keyword arguments of a call: error (absent, None or an error) and the
\* argument named return_arg_name (absent or a value).
Kwargs == [error : {Absent, NoneStr, "e1"}, named : {Absent, "v1"}]

ReturnArgNames == {NoneStr, "result"}

VARIABLES
    evented,   \* an EventedCallback object
    waiter,    \* the thread that calls wait() on it
    called,    \* the keyword arguments of the calls made to it so far
    awaitable, \* an AwaitableCallback object, its future and its event loop
    awaiter,   \* the coroutine that awaits completion()
    caller     \* what the last call of the AwaitableCallback did in its caller

callbackVars == <<evented, waiter, called, awaitable, awaiter, caller>>

\* --------------------------------------------------- evented_callback
\* EventedCallback.__init__
EventedCallback(return_arg_name) ==
    [return_arg_name |-> return_arg_name,
     completion_event |-> FALSE,
     exception |-> NoneStr,
     result |-> NoneStr,
     results |-> UnsetStr]

\* wrapping_callback(*args, **kwargs) of an EventedCallback
EventedCallback_wrapping_callback(self, kwargs) ==
    LET s1 == IF kwargs.error # Absent
              THEN [self EXCEPT !.exception = kwargs.error]
              ELSE IF self.return_arg_name # NoneStr
              THEN IF kwargs.named # Absent
                   THEN [self EXCEPT !.results = kwargs.named]
                   ELSE [self EXCEPT !.exception = TypeError]
              ELSE self
    IN [s1 EXCEPT !.completion_event = TRUE]

\* EventedCallback.wait, after completion_event.wait() has returned
wait(self) ==
    IF self.exception # NoneStr
    THEN [pc |-> "raised", value |-> self.exception]
    ELSE [pc |-> "returned", value |-> self.result]

EventedCall ==
    /\ Len(called) < MaxCalls
    /\ \E kwargs \in Kwargs :
          /\ evented' = EventedCallback_wrapping_callback(evented, kwargs)
          /\ called' = Append(called, kwargs)
    /\ UNCHANGED <<waiter, awaitable, awaiter, caller>>

WaitEnter ==
    /\ waiter.pc = "idle"
    /\ waiter' = [pc |-> "waiting", value |-> NoneStr]
    /\ UNCHANGED <<evented, called, awaitable, awaiter, caller>>

WaitReturn ==
    /\ waiter.pc = "waiting"
    /\ evented.completion_event
    /\ waiter' = wait(evented)
    /\ UNCHANGED <<evented, called, awaitable, awaiter, caller>>

\* ------------------------------------------------------ async_adapter
\* AwaitableCallback.__init__: a new future of the running loop
AwaitableCallback(return_arg_name) ==
    [return_arg_name |-> return_arg_name,
     future |-> [state |-> "pending", value |-> NoneStr],
     scheduled |-> <<>>,
     calls |-> <<>>]

\* loop.call_soon_threadsafe(fn, arg)
call_soon_threadsafe(self, fn, arg) ==
    [self |-> [self EXCEPT !.scheduled = Append(@, [fn |-> fn, arg |-> arg])],
     raised |-> NoneStr]

\* loop.call_soon_thradsafe(fn, arg): the loop has no attribute of that name
call_soon_thradsafe(self, fn, arg) == [self |-> self, raised |-> AttributeError]

\* wrapping_callback(*args, **kwargs) of an AwaitableCallback
AwaitableCallback_wrapping_callback(self, kwargs) ==
    IF kwargs.error # Absent
    THEN call_soon_thradsafe(self, "set_exception", kwargs.error)
    ELSE IF self.return_arg_name # NoneStr
    THEN IF kwargs.named # Absent
         THEN call_soon_threadsafe(self, "set_result", kwargs.named)
         ELSE call_soon_thradsafe(self, "set_exception", TypeError)
    ELSE call_soon_threadsafe(self, "set_result", NoneStr)

\* The loop runs a scheduled future.set_result / future.set_exception; on a
\* future that is done the call raises InvalidStateError inside the loop.
RunScheduled(self) ==
    LET h == Head(self.scheduled)
        rest == [self EXCEPT !.scheduled = Tail(@)]
    IN IF self.future.state # "pending" THEN rest
       ELSE [rest EXCEPT !.future =
                [state |-> IF h.fn = "set_result" THEN "result" ELSE "exception",
                 value |-> h.arg]]

\* AwaitableCallback.completion: return await self.future
completion(self) ==
    IF self.future.state = "exception"
    THEN [pc |-> "raised", value |-> self.future.value]
    ELSE [pc |-> "returned", value |-> self.future.value]

AwaitableCall ==
    /\ Len(awaitable.calls) < MaxCalls
    /\ \E kwargs \in Kwargs :
          LET r == AwaitableCallback_wrapping_callback(awaitable, kwargs)
          IN /\ awaitable' = [r.self EXCEPT !.calls = Append(@, kwargs)]
             /\ caller' = r.raised
    /\ UNCHANGED <<evented, waiter, called, awaiter>>

LoopRun ==
    /\ awaitable.scheduled # <<>>
    /\ awaitable' = RunScheduled(awaitable)
    /\ UNCHANGED <<evented, waiter, called, awaiter, caller>>

CompletionEnter ==
    /\ awaiter.pc = "idle"
    /\ awaiter' = [pc |-> "waiting", value |-> NoneStr]
    /\ UNCHANGED <<evented, waiter, called, awaitable, caller>>

CompletionReturn ==
    /\ awaiter.pc = "waiting"
    /\ awaitable.future.state # "pending"
    /\ awaiter' = completion(awaitable)
    /\ UNCHANGED <<evented, waiter, called, awaitable, caller>>

NotWaiting == [pc |-> "idle", value |-> NoneStr]

\* No callback object exists in a behaviour of the stage, of the dispatcher
\* or of the error maps.
CallbacksIdle ==
    /\ evented = EventedCallback(NoneStr)
    /\ waiter = NotWaiting
    /\ called = <<>>
    /\ awaitable = AwaitableCallback(NoneStr)
    /\ awaiter = NotWaiting
    /\ caller = NoneStr

CallbacksInit ==
    /\ \E n \in ReturnArgNames : evented = EventedCallback(n)
    /\ waiter = NotWaiting
    /\ called = <<>>
    /\ \E n \in ReturnArgNames : awaitable = AwaitableCallback(n)
    /\ awaiter = NotWaiting
    /\ caller = NoneStr

\* ======================================================= specifications
vars == <<stageVars, threadVars, errorVars, callbackVars>>

Init == StageInit /\ ThreadInit /\ ErrorsIdle /\ CallbacksIdle

NextThread ==
    \/ Call /\ UNCHANGED <<stageVars, errorVars, callbackVars>>
    \/ (\E t \in Threads : CreateExecutor(t)) /\ UNCHANGED <<stageVars, errorVars, callbackVars>>
    \/ Start /\ UNCHANGED <<stageVars, errorVars, callbackVars>>
    \/ Finish /\ UNCHANGED <<stageVars, errorVars, callbackVars>>
    \/ Return /\ UNCHANGED <<stageVars, errorVars, callbackVars>>
    \/ DirectRunOp /\ UNCHANGED <<stageVars, errorVars, callbackVars>>

SpecThread == Init /\ [][NextThread]_vars

\* The scheduling the dispatcher relies on: a thread that constructs an
\* executor goes on, an idle worker takes the next closure of its queue, a
\* function body that was entered ends, and a caller whose future is
\* resolved leaves future.result().
ThreadFairness ==
    /\ WF_vars((\E t \in Threads : CreateExecutor(t)) /\ UNCHANGED <<stageVars, errorVars, callbackVars>>)
    /\ WF_vars(Start /\ UNCHANGED <<stageVars, errorVars, callbackVars>>)
    /\ WF_vars(Finish /\ UNCHANGED <<stageVars, errorVars, callbackVars>>)
    /\ WF_vars(Return /\ UNCHANGED <<stageVars, errorVars, callbackVars>>)

SpecThreadFair == SpecThread /\ ThreadFairness

NextStage ==
    \/ SetConnectionArgs
    \/ SetSasToken
    \/ SetCertificate
    \/ Connect
    \/ Reconnect
    \/ Disconnect
    \/ Publish
    \/ Subscribe
    \/ Unsubscribe
    \/ OtherOperation
    \/ MqttConnected
    \/ MqttConnectionFailure
    \/ MqttDisconnected
    \/ MqttMessageReceived
    \/ MqttAcknowledged

Next == NextStage /\ UNCHANGED <<threadVars, errorVars, callbackVars>>

Spec == Init /\ [][Next]_vars

\* The session answers every call it accepted: a connect or reconnect call
\* with the connected or the connection-failure callback, a disconnect call
\* with the disconnected callback; the pipeline thread runs the handler.
MqttDisconnectAnswered ==
    \E src \in Origins(DisconnectCalls), cause \in Causes \cup {NoneStr} :
        Deliver(src, _handle_mqtt_disconnected(World, cause),
                "_handle_mqtt_disconnected", cause)

StageFairness ==
    /\ WF_vars((MqttConnected \/ MqttConnectionFailure)
                  /\ UNCHANGED <<threadVars, errorVars, callbackVars>>)
    /\ WF_vars(MqttDisconnectAnswered /\ UNCHANGED <<threadVars, errorVars, callbackVars>>)

SpecFair == Spec /\ StageFairness

InitErrors == StageInit /\ ThreadInit /\ ErrorsInit /\ CallbacksIdle

NextErrors ==
    \/ ErrorFromStatusCode /\ UNCHANGED <<stageVars, threadVars, callbackVars>>
    \/ CreateErrorFromConackRcCode /\ UNCHANGED <<stageVars, threadVars, callbackVars>>
    \/ CreateErrorFromRcCode /\ UNCHANGED <<stageVars, threadVars, callbackVars>>

SpecErrors == InitErrors /\ [][NextErrors]_vars

InitCallbacks == StageInit /\ ThreadInit /\ ErrorsIdle /\ CallbacksInit

NextCallbacks ==
    \/ EventedCall /\ UNCHANGED <<stageVars, threadVars, errorVars>>
    \/ WaitEnter /\ UNCHANGED <<stageVars, threadVars, errorVars>>
    \/ WaitReturn /\ UNCHANGED <<stageVars, threadVars, errorVars>>
    \/ AwaitableCall /\ UNCHANGED <<stageVars, threadVars, errorVars>>
    \/ LoopRun /\ UNCHANGED <<stageVars, threadVars, errorVars>>
    \/ CompletionEnter /\ UNCHANGED <<stageVars, threadVars, errorVars>>
    \/ CompletionReturn /\ UNCHANGED <<stageVars, threadVars, errorVars>>

SpecCallbacks == InitCallbacks /\ [][NextCallbacks]_vars

\* ================================================================= claims
\* What the last step called, as the set of positions of its calls.
Calls == last.calls

At(f) == {i \in DOMAIN Calls : Calls[i].fn = f}

Completions(o) == {i \in At("complete_op") : Calls[i].op = o}

CompletedWith(o, e) == \E i \in Completions(o) : Calls[i].arg = e

TransportCalls == {i \in DOMAIN Calls : Calls[i].fn \in ConnectCalls \cup DisconnectCalls}

\* The operations the slots held when the last step began.
Held == {o \in {last.preC, last.preD} : o > None}

SlotOf(k) == IF k \in ConnectKinds THEN "_active_connect_op" ELSE "_active_disconnect_op"

\* ---- C1
\* C1: when a Connect, Reconnect or Disconnect reaches the stage while a slot
\* holds an operation, the held operation is completed with a PipelineError
\* and is out of its slot before the new operation's session call is made,
\* that call is made, and afterwards the slot of the new operation's class
\* holds the new operation (unless its session call raised at once).
C1_SupersedesHeld ==
    (last.act \in SlotKinds /\ Held # {}) =>
        /\ \A h \in Held :
              /\ \E i \in Completions(h) :
                    /\ Calls[i].arg = PipelineError
                    /\ \A j \in TransportCalls : i < j
              /\ stage._active_connect_op # h
              /\ stage._active_disconnect_op # h
        /\ \E j \in TransportCalls : Calls[j].op = last.op
        /\ \/ stage[SlotOf(last.act)] = last.op
           \/ CompletedWith(last.op, TransportRaises)

\* ---- C2
\* C2: for each execution context, at most one closure submitted to that
\* context is executing at any instant.
Executing(c) == {e \in ExecIds : execs[e].ctx = c /\ execs[e].running # 0}

C2_OneClosurePerContext ==
    \A c \in Contexts : Cardinality(Executing(c)) <= 1

\* ---- C3
\* C3: a function that reads or writes the stage's state has its body run
\* only by a worker of the pipeline context whose thread is flagged as
\* pipeline; a handler called on the session's thread never runs there and
\* never blocks that thread; _run_op entered on a thread that is not flagged
\* as pipeline faults instead of running.
C3_StageStateOnPipeline ==
    /\ (ran.fn \in StageFns /\ ~ran.fault) =>
          (ran.on = "pipeline" /\ "pipeline" \in ran.flags)
    /\ ran.fn \in Handlers => ~ran.fault
    /\ (ran.fn = "_run_op" /\ "pipeline" \notin ran.flags) => ran.fault
    /\ th[SessionThread].pc \in {"idle", "create"}
    /\ th[SessionThread].flags = {}

\* A disconnected callback's handler runs on a pipeline worker while the
\* session's thread, which called it, has gone on.
C3_Witness ==
    /\ ran.fn = "_handle_mqtt_disconnected"
    /\ ran.on = "pipeline"
    /\ ~ran.fault
    /\ th[SessionThread].pc = "idle"

\* ---- C4
\* C4: in the step of a connected (disconnected) callback, every completion
\* of an operation comes after the call of on_connected (on_disconnected).
NotifiedBefore(f, i) == \E j \in At(f) : j < i

C4_NotifyBeforeComplete ==
    /\ last.act = "_handle_mqtt_connected" =>
          \A i \in At("complete_op") : NotifiedBefore("on_connected", i)
    /\ last.act = "_handle_mqtt_disconnected" =>
          \A i \in At("complete_op") : NotifiedBefore("on_disconnected", i)

C4_Witness ==
    /\ last.act = "_handle_mqtt_connected"
    /\ last.preC > None
    /\ Completions(last.preC) # {}

\* ---- C5
\* C5: on_connected is called once by a connected callback and by no other
\* step; a connected callback that finds an operation in the connect slot
\* completes it without an error; a disconnected callback without a cause
\* that finds an operation in the disconnect slot completes it without an
\* error.  The end-to-end scenario is the case scenario = 4 and scenario = 6.
SuccessOf(o) ==
    /\ Cardinality(Completions(o)) = 1
    /\ CompletedWith(o, NoneStr)

C5_ScenarioSucceeds ==
    /\ Cardinality(At("on_connected")) = IF last.act = "_handle_mqtt_connected" THEN 1 ELSE 0
    /\ (last.act = "_handle_mqtt_connected" /\ last.preC > None) => SuccessOf(last.preC)
    /\ (last.act = "_handle_mqtt_disconnected" /\ last.arg = NoneStr /\ last.preD > None) =>
          SuccessOf(last.preD)
    /\ scenario = 4 => (last.preC > None /\ last.origin = last.preC)
    /\ scenario = 6 => (last.preD > None /\ last.origin = last.preD /\ last.preC = None)

C5_Witness ==
    /\ scenario = 6
    /\ SuccessOf(last.preD)
    /\ stage.sas_token = "t1"

\* ---- C6
\* C6: a Disconnect that reaches the stage while a Connect is in the connect
\* slot is accepted: the session's disconnect is called, the Connect has been
\* completed with a PipelineError, and the Disconnect is in the disconnect
\* slot (unless the session's disconnect raised at once).
C6_DisconnectWhileConnecting ==
    (last.act = "DisconnectOperation" /\ last.preC > None) =>
        /\ \E j \in At("transport.disconnect") : Calls[j].op = last.op
        /\ CompletedWith(last.preC, PipelineError)
        /\ \/ stage._active_disconnect_op = last.op
           \/ CompletedWith(last.op, TransportRaises)

\* ---- C7
\* C7: a callback that answers the session call of an operation that has left
\* its slot since completes no operation and attaches no error to one.
C7_LateCallbackCompletesNothing ==
    last.origin = Stale => At("complete_op") = {}

\* ---- C8
\* C8: no operation object is completed twice: not within one step, and not
\* by a later step while the stage still reaches it.
C8_CompletedAtMostOnce ==
    /\ \A o \in OpIds : ops[o].completed <= 1
    /\ \A i, j \in At("complete_op") : Calls[i].op = Calls[j].op => i = j

\* A connect whose session call raised: completed once, and out of its slot.
C8_Witness ==
    /\ last.act = "ConnectOperation"
    /\ last.preC = None
    /\ Cardinality(Completions(last.op)) = 1
    /\ CompletedWith(last.op, TransportRaises)
    /\ stage._active_connect_op = None

\* ---- C9
\* C9: a connection-failure callback with cause c that finds operation o in
\* the connect slot sets o's error to c, empties the slot and completes o,
\* and does nothing else; one that finds the slot empty passes c to the
\* unhandled-background-failure sink and completes nothing.
Sink(e) == [fn |-> "exception_caught_in_background_thread", op |-> None, arg |-> e, arg2 |-> NoneStr]

Completion(o, e) == [fn |-> "complete_op", op |-> o, arg |-> e, arg2 |-> NoneStr]

Notice(f) == [fn |-> f, op |-> None, arg |-> NoneStr, arg2 |-> NoneStr]

C9_ConnectionFailure ==
    last.act = "_handle_mqtt_connection_failure" =>
        IF last.preC > None
        THEN /\ Calls = <<Completion(last.preC, last.arg)>>
             /\ stage._active_connect_op = None
        ELSE /\ Calls = <<Sink(last.arg)>>
             /\ stage._active_connect_op = last.preC

C9_Witness ==
    /\ last.act = "_handle_mqtt_connection_failure"
    /\ last.preC > None
    /\ last.arg = "UnauthorizedError"
    /\ CompletedWith(last.preC, "UnauthorizedError")

\* ---- C10
\* C10: a disconnected callback with cause c (possibly none) that finds
\* operation o in the disconnect slot sets o's error to c, empties the slot
\* and completes o; one that finds the slot empty passes c to the
\* unhandled-background-failure sink and completes nothing.
C10_Disconnected ==
    last.act = "_handle_mqtt_disconnected" =>
        IF last.preD > None
        THEN /\ Calls = <<Notice("on_disconnected"), Completion(last.preD, last.arg)>>
             /\ stage._active_disconnect_op = None
        ELSE /\ Calls = <<Notice("on_disconnected"), Sink(last.arg)>>
             /\ stage._active_disconnect_op = last.preD

\* A disconnected callback with a cause finds a Disconnect in the slot.
C10_Witness ==
    /\ last.act = "_handle_mqtt_disconnected"
    /\ last.preD > None
    /\ last.arg = "ConnectionFailedError"
    /\ CompletedWith(last.preD, "ConnectionFailedError")
    /\ stage._active_disconnect_op = None

\* ---- C11
\* C11: a connected callback that finds the connect slot empty raises
\* nothing, calls on_connected and nothing else (so completes no operation),
\* and leaves every attribute of the stage as it was.
C11_UnexpectedConnected ==
    [][(last'.act = "_handle_mqtt_connected" /\ stage._active_connect_op = None) =>
          /\ last'.exc = NoExc
          /\ last'.calls = <<Notice("on_connected")>>
          /\ stage' = stage
          /\ \A o \in OpIds : ops'[o].completed = ops[o].completed]_vars

C11_Witness ==
    /\ last.act = "_handle_mqtt_connected"
    /\ last.preC = None
    /\ last.origin = Stale
    /\ stage._active_connect_op = None

\* ---- C12
\* C12: when the session's connect, reconnect or disconnect call raises at
\* once, the operation is out of its slot, is completed exactly once, with
\* the error the call raised, and the session holds no call for it; and at
\* every moment an operation in a slot has a call the session accepted.
Raised(o) == \E j \in TransportCalls : Calls[j].op = o /\ \A c \in session : c.op # o

Accepted(o) == \E c \in session : c.op = o /\ c.fn \in ConnectCalls \cup DisconnectCalls

C12_RaisingCallClearsSlot ==
    /\ (last.act \in SlotKinds /\ Raised(last.op)) =>
          /\ stage._active_connect_op # last.op
          /\ stage._active_disconnect_op # last.op
          /\ stage[SlotOf(last.act)] = None
          /\ Cardinality(Completions(last.op)) = 1
          /\ CompletedWith(last.op, TransportRaises)
    /\ stage._active_connect_op > None => Accepted(stage._active_connect_op)
    /\ stage._active_disconnect_op > None => Accepted(stage._active_disconnect_op)

C12_Witness ==
    /\ last.act = "DisconnectOperation"
    /\ Raised(last.op)
    /\ CompletedWith(last.op, TransportRaises)
    /\ stage._active_disconnect_op = None

\* ---- C13
\* C13: a Connect that reaches a stage which has its session object calls
\* the session's connect, and passes as the password the token of the last
\* SetSasTokenOperation the stage received.
C13_ConnectPassesStoredToken ==
    (last.act = "ConnectOperation" /\ last.preT # UnsetStr) =>
        \E j \in At("transport.connect") :
            Calls[j].op = last.op /\ Calls[j].arg = stored_token

\* ---- C14
\* C14: a Connect passes one credential to the session: the token or the
\* certificate, never both.
C14_OneCredential ==
    last.act = "ConnectOperation" =>
        \A j \in At("transport.connect") :
            Calls[j].arg = NoneStr \/ Calls[j].arg2 = NoneStr

\* ---- C15
\* C15: the session object is constructed only by a step that finds the
\* stage without one.
C15_SessionConstructedOnce ==
    At("MQTTTransport") # {} => last.preT = UnsetStr

\* ---- C16
\* C16: an operation that a step found in a slot and that is no longer in
\* that slot after the step has been completed by that step.
C16_SlotClearedOnlyOnCompletion ==
    /\ (last.preC > None /\ stage._active_connect_op # last.preC) =>
          Completions(last.preC) # {}
    /\ (last.preD > None /\ stage._active_disconnect_op # last.preD) =>
          Completions(last.preD) # {}

\* ---- C17
\* C17: a thread blocked in a dispatch is not flagged as pipeline, and the
\* closure it waits for is queued or running on an executor of the pipeline
\* context, or has finished; the closure of a blocking function runs on a
\* pipeline worker while its caller is blocked; the caller resumes only when
\* the closure has finished, with the function's exception raised in it
\* exactly when the function raised.
Queued(e) == {execs[e].queue[i].id : i \in DOMAIN execs[e].queue}

OnExecutorOf(c, id) ==
    \E e \in ExecIds : execs[e].ctx = c /\ (execs[e].running = id \/ id \in Queued(e))

C17_Blocked ==
    /\ \A t \in Threads : th[t].pc = "blocked" =>
          /\ "pipeline" \notin th[t].flags
          /\ th[t].wait \in done \/ OnExecutorOf("pipeline", th[t].wait)
    /\ (ran.via = "worker" /\ ran.fn = "_run_op") =>
          /\ ran.on = "pipeline"
          /\ ~ran.fault
          /\ Awaited(ran.id)
          /\ ran.id \notin done

C17_Resumed ==
    ran'.via = "result" =>
        /\ ran'.id \in done
        /\ ran'.fault = (ran'.id \in failed)
        /\ \E t \in Threads : th[t].pc = "blocked" /\ th[t].wait = ran'.id /\ th'[t].pc = Back(t)

C17_BlockingDispatch == [](C17_Blocked) /\ [][C17_Resumed]_vars

\* The client thread has the function's exception raised in it.
C17_Witness ==
    /\ ran.via = "result"
    /\ ran.fault
    /\ ran.on = "none"
    /\ th[ClientThread].pc = "idle"

\* ---- C18
\* C18: a function entered inline was entered on a thread flagged as the
\* function's context, in a step that changes no executor, submits nothing
\* and moves no thread; and a step in which a thread adds a closure to a
\* queue of context c is made by a thread not flagged as c.
Grew(e) == Len(execs'[e].queue) > Len(execs[e].queue)

C18_Inline ==
    /\ ran'.via = "inline" =>
          /\ CtxOf(ran'.fn) \in ran'.flags
          /\ ran'.on = CtxOf(ran'.fn)
          /\ ~ran'.fault
          /\ execs' = execs
          /\ submitted' = submitted
          /\ named' = named
          /\ \A t \in Threads : th'[t].pc = th[t].pc
    /\ \A t \in Threads, e \in ExecIds :
          (th'[t] # th[t] /\ Grew(e)) => execs'[e].ctx \notin th[t].flags

C18_InlineWhenFlagged == [][C18_Inline]_vars

\* A pipeline closure calls a non-blocking handler, which runs inline.
C18_Witness ==
    /\ ran.via = "inline"
    /\ ran.fn = "_handle_mqtt_connected"
    /\ \E e \in ExecIds : execs[e].ctx = "pipeline" /\ execs[e].running # 0 /\ th[e].nested = 1

\* ---- C19
\* C19: the step in which a thread submits the closure of a handler or of a
\* client's callback leaves that thread where it was, waiting for nothing,
\* while the closure is in the queue, neither started nor finished.
NewClosure(e) == execs'[e].queue[Len(execs'[e].queue)]

C19_Submit ==
    \A t \in Threads, e \in ExecIds :
        (th'[t] # th[t] /\ Grew(e) /\ NewClosure(e).fn \in {"handler", "callback"}) =>
            /\ th'[t].pc = Back(t)
            /\ th'[t].wait = 0
            /\ NewClosure(e).id \notin done'
            /\ execs'[e].running # NewClosure(e).id

C19_NowaitReturnsAtOnce == [][C19_Submit]_vars

\* The session's thread is back while the handler it called is still queued.
C19_Witness ==
    /\ th[SessionThread].pc = "idle"
    /\ submitted = 1
    /\ \E e \in ExecIds :
          /\ execs[e].queue # <<>>
          /\ Head(execs[e].queue).fn = "handler"
          /\ execs[e].running = 0

\* ---- C20
\* C20: while a closure of a context is running, no closure submitted to
\* that context before it is still queued or running.
C20_Fifo ==
    \A e1, e2 \in ExecIds :
        (execs[e1].ctx = execs[e2].ctx /\ execs[e2].running # 0) =>
            /\ \A id \in Queued(e1) : id > execs[e2].running
            /\ execs[e1].running # 0 => execs[e1].running >= execs[e2].running

\* ---- C21
\* C21: _run_op, which is wrapped with the pipeline assertion, faults without
\* running its body when the thread that enters it is not flagged as
\* pipeline, and runs its body when the thread is flagged as pipeline,
\* however the thread came to enter it (as a worker's closure, inline, or by
\* a direct call).
C21_AssertedOnPipeline ==
    ran.fn = "_run_op" =>
        /\ ran.via \in {"worker", "inline", "direct"}
        /\ ran.fault = ("pipeline" \notin ran.flags)

\* A worker of the callback context calls _run_op directly: the assertion fails.
C21_Witness ==
    /\ ran.fn = "_run_op"
    /\ ran.via = "direct"
    /\ ran.on = "callback"
    /\ ran.flags = {"callback"}
    /\ ran.fault

\* ---- C22
\* C22: a client's callback is entered only on a worker of the callback
\* context, whose thread is not flagged as pipeline, and no thread is blocked
\* on a closure that is queued or running on the callback context.
C22_CallbackOffPipeline ==
    /\ ran.fn = "callback" =>
          /\ "pipeline" \notin ran.flags
          /\ ran.on = "callback"
          /\ ~ran.fault
    /\ \A t \in Threads : th[t].pc = "blocked" => ~OnExecutorOf("callback", th[t].wait)

\* A callback starts on the callback worker while the pipeline closure that
\* dispatched it goes on with its body.
C22_Witness ==
    /\ ran.fn = "callback"
    /\ ran.via = "worker"
    /\ ran.by # 0
    /\ \E e \in ExecIds :
          /\ execs[e].ctx = "pipeline"
          /\ execs[e].running = ran.by
          /\ th[e].pc = "body"
          /\ th[e].wait = 0

\* ---- C23
\* C23: when a callback closure that was submitted by a pipeline closure
\* starts on the callback worker, the pipeline closure that submitted it has
\* finished.
C23_DeliveryAfterScheduler ==
    (ran.via = "worker" /\ ran.fn = "callback" /\ ran.by # 0) => ran.by \in done

\* ---- C24
\* C24: when an exception leaves a closure of the pipeline context that no
\* caller waits for, the error is passed to the unhandled-exception sink or
\* an operation is completed with it.
Recorded ==
    \E j \in DOMAIN Calls :
        \/ Calls[j].fn = "exception_caught_in_background_thread"
        \/ Calls[j].fn = "complete_op" /\ Calls[j].arg # NoneStr

C24_NowaitErrorRecorded ==
    (ran.via = "raise" /\ ran.on = "pipeline" /\ ran.id \notin failed) => Recorded

\* ---- C25
\* C25: every publish, subscribe or unsubscribe call the session accepted
\* stays outstanding, whatever else is outstanding, until its own
\* acknowledgement; the operation it was made for is of the call's kind and
\* is not completed while the call is outstanding; an acknowledgement
\* completes the operation of the acknowledged call, once and without error,
\* and nothing else; no other step removes an outstanding call.
CallOf(k) ==
    CASE k = "MQTTPublishOperation" -> "transport.publish"
      [] k = "MQTTSubscribeOperation" -> "transport.subscribe"
      [] k = "MQTTUnsubscribeOperation" -> "transport.unsubscribe"
      [] OTHER -> "none"

Outstanding == {c \in session : c.fn \in AckCalls}

C25_Outstanding ==
    /\ \A c \in Outstanding :
          /\ c.op \in OpIds
          /\ ops[c.op].completed = 0
          /\ ops[c.op].error = NoneStr
          /\ CallOf(ops[c.op].kind) = c.fn
    /\ \A c, d \in Outstanding : c.op = d.op => c = d
    /\ (last.act \in AckKinds /\ Accepted(last.op)) =>
          [fn |-> CallOf(last.act), op |-> last.op] \in Outstanding
    /\ last.act = "on_acknowledged" =>
          /\ Calls = <<[fn |-> "complete_op", op |-> last.origin, arg |-> NoneStr,
                        arg2 |-> NoneStr]>>
          /\ \A c \in Outstanding : c.op # last.origin

C25_Kept ==
    \A c \in Outstanding :
        \/ c \in session'
        \/ last'.act = "on_acknowledged" /\ last'.origin = c.op

C25_AckCompletesOwnOperation == [](C25_Outstanding) /\ [][C25_Kept]_vars

\* The call made second is acknowledged first; the first is still outstanding.
C25_Witness ==
    /\ last.act = "on_acknowledged"
    /\ last.origin = 2
    /\ \E c \in Outstanding : c.op = 1

\* ---- C26
\* C26: a message-received callback makes exactly one call, which passes to
\* the previous stage an event with the callback's topic and payload; it
\* completes no operation and leaves both slots as they were.
C26_MessageReceived ==
    last.act = "_handle_mqtt_message_received" =>
        /\ Calls = <<[fn |-> "pass_event_to_previous_stage", op |-> None,
                      arg |-> last.arg, arg2 |-> "payload"]>>
        /\ last.exc = NoExc
        /\ stage._active_connect_op = last.preC
        /\ stage._active_disconnect_op = last.preD

\* A message arrives while a connect operation is held.
C26_Witness ==
    /\ last.act = "_handle_mqtt_message_received"
    /\ last.preC > None
    /\ stage._active_connect_op = last.preC

\* ---- C27
\* C27: the step of an operation of a kind the stage does not handle makes
\* exactly one call, which passes the operation, with no error attached, to
\* the next stage; it raises nothing, completes nothing, and leaves the
\* stage's parameters, credentials, session handle and slots, and the
\* session's outstanding calls, as they were.
C27_Step ==
    last'.act = "OtherOperation" =>
        /\ last'.calls = <<[fn |-> "pass_op_to_next_stage", op |-> last'.op,
                            arg |-> NoneStr, arg2 |-> NoneStr]>>
        /\ last'.exc = NoExc
        /\ stage' = stage
        /\ session' = session
        /\ \A o \in OpIds : ops'[o].completed = ops[o].completed

C27_UnhandledPassedOn == [][C27_Step]_vars

\* An unhandled operation arrives while a connect operation is held.
C27_Witness ==
    /\ last.act = "OtherOperation"
    /\ last.preC > None
    /\ stage._active_connect_op = last.preC
    /\ stage.transport # UnsetStr

\* ---- C28
\* C28: the error error_from_status_code returns is of the kind the
\* reference mapping documents for the code (FailedStatusCode for a code
\* outside the table) and carries the message it was called with.
Documented ==
    (400 :> "ArgumentError") @@ (401 :> "UnauthorizedError") @@
    (403 :> "QuotaExceededError") @@ (404 :> "NotFoundError") @@
    (408 :> "TimeoutError") @@ (409 :> "DeviceAlreadyExistsError") @@
    (412 :> "InvalidEtagError") @@ (413 :> "MessageTooLargeError") @@
    (429 :> "ThrottlingError") @@ (500 :> "InternalServiceError") @@
    (502 :> "BadDeviceResponseError") @@ (503 :> "ServiceUnavailableError") @@
    (504 :> "TimeoutError")

FirstStage(table, code) == IF code \in DOMAIN table THEN table[code] ELSE "PahoUnknownError"

C29_CausalParent ==
    /\ returned.fn = "create_error_from_conack_rc_code" =>
          returned.error.cause =
              <<Exception(FirstStage(paho_conack_rc_to_error, arguments.code),
                          conack_string(arguments.code))>>
    /\ returned.fn = "create_error_from_rc_code" =>
          returned.error.cause =
              <<Exception(FirstStage(paho_rc_to_error, arguments.code),
                          error_string(arguments.code))>>

\* A result code outside the table: the parent is the library's unknown error.
C29_Witness ==
    /\ returned.fn = "create_error_from_rc_code"
    /\ arguments.code = MaxCode
    /\ arguments.code \notin DOMAIN paho_rc_to_error
    /\ Len(returned.error.cause) = 1
    /\ returned.error.cause[1].kind = "PahoUnknownError"

\* ---- C30
\* C30: for every code each library mapper returns an error, of a kind in
\* its documented result set, and TransportError for a code outside its table.
C30_ResultSets ==
    /\ returned.fn = "create_error_from_conack_rc_code" =>
          /\ returned.error.kind \in {"TransportError", "ConnectionFailedError", "UnauthorizedError"}
          /\ arguments.code \notin DOMAIN paho_conack_rc_to_error =>
                returned.error.kind = "TransportError"
    /\ returned.fn = "create_error_from_rc_code" =>
          /\ returned.error.kind \in {"TransportError", "ConnectionDroppedError", "UnauthorizedError"}
          /\ arguments.code \notin DOMAIN paho_rc_to_error =>
                returned.error.kind = "TransportError"

\* A refusal code outside the table yields TransportError.
C30_Witness ==
    /\ returned.fn = "create_error_from_conack_rc_code"
    /\ arguments.code = 0
    /\ returned.error.kind = "TransportError"

\* ---- C31
\* C31: a Reconnect that reaches a stage which has its session object
\* completes every operation it finds in a slot with a PipelineError, calls
\* the session's reconnect with the token of the last SetSasTokenOperation,
\* and is then in the connect slot (unless the call raised at once); and a
\* connected or connection-failure callback that answers the call of an
\* operation still in the connect slot completes that operation, without
\* error or with the callback's cause.
C31_ReconnectLikeConnect ==
    /\ (last.act = "ReconnectOperation" /\ last.preT # UnsetStr) =>
          /\ \A h \in Held : CompletedWith(h, PipelineError)
          /\ \E j \in At("transport.reconnect") :
                Calls[j].op = last.op /\ Calls[j].arg = stored_token
          /\ \/ stage._active_connect_op = last.op
             \/ CompletedWith(last.op, TransportRaises)
    /\ (last.act = "_handle_mqtt_connected" /\ last.origin > None) =>
          CompletedWith(last.origin, NoneStr)
    /\ (last.act = "_handle_mqtt_connection_failure" /\ last.origin > None) =>
          CompletedWith(last.origin, last.arg)

\* ---- C32
\* C32: of the executors constructed for a context name, at most one has
\* ever been given a closure.
Worked(c) ==
    {e \in ExecIds : /\ execs[e].ctx = c
                     /\ execs[e].queue # <<>> \/ execs[e].running # 0 \/ th[e].flags # {}}

C32_OneWorkerPerName == \A c \in Contexts : Cardinality(Worked(c)) <= 1

\* ---- C34
\* C34: once a SetSasTokenOperation has reached the stage, the token the
\* stage holds is the token of the last one.
C34_CredentialKept == stored_token # NoneStr => stage.sas_token = stored_token

\* ---- C37
\* C37: the connect slot and the disconnect slot do not both hold an operation.
C37_SlotsNotBothHeld ==
    ~(stage._active_connect_op > None /\ stage._active_disconnect_op > None)

\* A Disconnect has reached the stage while a Connect was held: one slot is
\* held, the other is empty.
C37_Witness ==
    /\ last.act = "DisconnectOperation"
    /\ last.preC > None
    /\ last.preD = None
    /\ stage.transport # UnsetStr
    /\ (stage._active_connect_op > None) # (stage._active_disconnect_op > None)

\* ---- C38
\* C38: an operation held in a slot has not been completed, and no step
\* completes an operation that is in a slot when the step ends.
C38_HeldNotCompleted ==
    \A slot \in {"_active_connect_op", "_active_disconnect_op"} :
        stage[slot] > None =>
            /\ ops[stage[slot]].completed = 0
            /\ Completions(stage[slot]) = {}

\* A failure callback completed the held connect operation: the slot it was
\* in is empty afterwards.
C38_Witness ==
    /\ last.act = "_handle_mqtt_connection_failure"
    /\ last.preC > None
    /\ Cardinality(Completions(last.preC)) = 1
    /\ stage._active_connect_op = None

\* ---- C35
\* C35: wait() on an EventedCallback created with a return argument name
\* ends only after the callback has been called; when it returns, it returns
\* a value that was passed to the callback under that name; when it raises,
\* it raises an error the callback was called with, or a TypeError after a
\* call without error in which the named argument was missing.
PassedTo(calls) ==
    {calls[i].named : i \in {j \in DOMAIN calls : calls[j].error = Absent}} \ {Absent}

ErrorsTo(calls) == {calls[i].error : i \in DOMAIN calls} \ {Absent, NoneStr}

MissingIn(calls) == \E i \in DOMAIN calls : calls[i].error = Absent /\ calls[i].named = Absent

C35_WaitReturnsPassedValue ==
    evented.return_arg_name # NoneStr =>
        /\ waiter.pc \in {"returned", "raised"} => called # <<>>
        /\ waiter.pc = "returned" => waiter.value \in PassedTo(called)
        /\ waiter.pc = "raised" =>
              \/ waiter.value \in ErrorsTo(called)
              \/ waiter.value = TypeError /\ MissingIn(called)

\* ---- C36
\* C36: a call of an AwaitableCallback raises nothing in its caller; once
\* the callback has been called and the loop has run what was scheduled, the
\* future is resolved; and completion() returns a value passed under the
\* name, or raises an error the callback was called with, or a TypeError
\* after a call in which the expected named argument was missing.
C36_CompletionResolves ==
    /\ caller = NoneStr
    /\ (awaitable.calls # <<>> /\ awaitable.scheduled = <<>>) =>
          awaitable.future.state # "pending"
    /\ (awaitable.return_arg_name # NoneStr /\ awaiter.pc = "returned") =>
          awaiter.value \in PassedTo(awaitable.calls)
    /\ awaiter.pc = "raised" =>
          \/ awaiter.value \in ErrorsTo(awaitable.calls)
          \/ awaiter.value = TypeError /\ MissingIn(awaitable.calls)

\* ---- C33
\* C33: no worker of the pipeline context is ever blocked in a dispatch, and
\* every blocking dispatch returns: again and again no thread at all is
\* inside future.result(), so none stays there.
C33_PipelineNeverWaits ==
    \A e \in ExecIds : th[e].pc = "blocked" => execs[e].ctx = "callback"

C33_BlockingDispatchReturns ==
    /\ [](C33_PipelineNeverWaits)
    /\ []<>(\A t \in Threads : th[t].pc # "blocked")

\* A callback closure, submitted by a pipeline closure that has since called
\* a pipeline function inline, is blocked in a dispatch onto the pipeline.
C33_Witness ==
    \E e \in ExecIds :
        /\ execs[e].ctx = "callback"
        /\ th[e].pc = "blocked"
        /\ OnExecutorOf("pipeline", th[e].wait)

\* ---- C39
\* C39: every Connect, Reconnect and Disconnect operation the stage holds
\* uncompleted is eventually completed, when the session answers every call
\* it accepted.
C39_Pending(o) == ops[o].kind \in SlotKinds /\ ops[o].completed = 0

C39_EventuallyCompleted ==
    \A o \in OpIds : C39_Pending(o) ~> (Completions(o) # {})

====
